---- MODULE Spec2Model ----
(***************************************************************************)
(* AR/VR traffic model (arvr-sim.cc): VrHeader codec, VrDownlinkApp and    *)
(* VrUplinkApp generators under the discrete-event scheduler, and the      *)
(* VrReceiverApp frame tracker behind its two receive paths (HandleRead    *)
(* for UDP datagrams, HandleTcpRead for the TCP byte stream).              *)
(*                                                                         *)
(* Times are integers in microseconds; Simulator::Now().GetMilliSeconds()  *)
(* is the truncating division by 1000.  Bytes are integers 0..255;         *)
(* buffers, packets and segments are sequences of bytes.                   *)
(***************************************************************************)
EXTENDS Integers, Sequences, FiniteSets, TLC

VARIABLES
    now,      \* Simulator::Now(), microseconds
    recv,     \* the VrReceiverApp object (fields m_*), with history fields g_*
    wire,     \* TCP: bytes the peer has written that have not reached the socket
    sockRx,   \* TCP: segments in the connection socket that RecvFrom has not returned
    nsent,    \* number of downlink units the channel has carried so far
    peerPkts, \* TCP: fragments per frame of the peer (the burst-mode generator)
    ref,      \* SpecEquiv: a second VrReceiverApp, fed the same fragments as datagrams
    inflight, \* SpecEquiv: the written fragments whose last byte is still on the wire
    gen,      \* SpecGen: the generators' configuration and m_frameCounter
    agenda,   \* SpecGen: the simulator's event list, in execution order
    sent,     \* SpecGen: downlink units handed to m_socket->Send, with their time
    upSent,   \* SpecGen: uplink units handed to m_socket->Send, with their time
    halted,   \* SpecGen: Simulator::Stop has been executed
    codec,    \* SpecCodec: a VrHeader, its encoding and what the decoders return
    agg,      \* SpecAgg: the two delay series and the statistics reported on them
    chan      \* SpecLoss, SpecOrder, SpecChan: what the channel did with each unit

chanVars == <<wire, sockRx, nsent, peerPkts>>

eqVars == <<ref, inflight>>

genVars == <<gen, agenda, sent, upSent, halted>>

auxVars == <<codec, agg, chan>>

vars == <<now, recv, chanVars, eqVars, genVars, auxVars>>

(***************************************************************************)
(* Bounds of the model.                                                    *)
(***************************************************************************)
\* payload bytes per fragment (m_pktSize; 1200 in main)
PayloadBytes == 1
\* capacity of the stream reassembly buffer (m_tcpBufferSize; 200000 in the code)
TcpBufferSize == 20
\* per-frame deadline in ms (SetDeadlineMs; 50 in main)
DeadlineMs == 1
\* last millisecond of the receiver runs
MaxNowMs == 2
\* frame ids carried by arriving headers are 0..MaxFrameId
MaxFrameId == 1
\* declared fragment counts of arriving headers are 0..MaxPktCount
MaxPktCount == 2
\* datagrams carried by the channel in one UDP run
MaxArrivals == 3
\* fragments written to the stream in one TCP run
MaxFrags == 3
\* segments handed over by the socket in one HandleTcpRead call
MaxSegs == 2
\* fragments fed to the two receivers of SpecEquiv
MaxEqFrags == 2
\* fragments written to the stream in one run of SpecRaw
MaxRawFrags == 1
\* longest delay series built entry by entry in SpecAgg
MaxSeries == 3
\* datagrams carried by the channel in one run of SpecDup
MaxDup == 3
\* fragments written to the stream in one run of SpecResync
MaxResyncFrags == 4
\* uplink samples the channel hands over in one run of SpecUp
MaxUpDeliveries == 3
\* SpecGen: start and stop time of the applications and stop time of the
\* simulator, microseconds (1 s, 10 s and 20 s in main)
AppStartUs == 1000
AppStopUs == 5000
SimStopUs == 8000

(***************************************************************************)
(* Fixed-width integers.  A uint16_t is its value in 0..65535.  A uint32_t *)
(* with value v is the integer congruent to v modulo 2^32 that lies in     *)
(* -2^31 .. 2^31-1 (the two's-complement reading of its 32 bits), so that  *)
(* unsigned addition and subtraction are integer addition and subtraction  *)
(* and a wrapped difference such as 5 - 7 = 2^32 - 2 is the integer -2.    *)
(* Unsigned order is Ule32/Ult32.                                          *)
(***************************************************************************)
TwoTo16 == 2^16

U16(x) == x % TwoTo16

\* the unsigned value of a is below the unsigned value of b
Ult32(a, b) == IF (a < 0) = (b < 0) THEN a < b ELSE b < 0

Ule32(a, b) == a = b \/ Ult32(a, b)

\* (uint32_t) Simulator::Now().GetMilliSeconds()
MsOf(t) == t \div 1000

(***************************************************************************)
(* VrHeader: 12 bytes, network order.                                      *)
(***************************************************************************)
WriteHtonU32(x) ==
    << (x \div 16777216) % 256, (x \div 65536) % 256, (x \div 256) % 256, x % 256 >>

WriteHtonU16_le(x) ==
    << x % 256, (x \div 256) % 256 >>

WriteHtonU16(x) ==
    << (x \div 256) % 256, x % 256 >>

\* the four bytes b1 b2 b3 b4, most significant first, as a uint32_t
U32OfBytes(b1, b2, b3, b4) ==
    (IF b1 >= 128 THEN b1 - 256 ELSE b1) * 16777216 + b2 * 65536 + b3 * 256 + b4

ReadNtohU32(data, i) ==
    U32OfBytes(data[i], data[i + 1], data[i + 2], data[i + 3])

ReadNtohU16(data, i) ==
    data[i] * 256 + data[i + 1]

VrHeader(frameId, pktId, pktCount, sendTsMs) ==
    [frameId |-> frameId, pktId |-> U16(pktId),
     pktCount |-> U16(pktCount), sendTsMs |-> sendTsMs]

GetSerializedSize == 4 + 2 + 2 + 4

Serialize(h) ==
    WriteHtonU32(h.frameId) \o WriteHtonU16(h.pktId)
        \o WriteHtonU16(h.pktCount) \o WriteHtonU32(h.sendTsMs)

Deserialize(data) ==
    [frameId  |-> ReadNtohU32(data, 1),
     pktId    |-> ReadNtohU16(data, 5),
     pktCount |-> ReadNtohU16(data, 7),
     sendTsMs |-> ReadNtohU32(data, 9)]

DeserializeFromRaw_swapped(data) ==
    [frameId  |-> U32OfBytes(data[1], data[2], data[3], data[4]),
     pktId    |-> data[7] * 256 + data[8],
     pktCount |-> data[5] * 256 + data[6],
     sendTsMs |-> U32OfBytes(data[9], data[10], data[11], data[12])]

DeserializeFromRaw(data) ==
    [frameId  |-> U32OfBytes(data[1], data[2], data[3], data[4]),
     pktId    |-> data[5] * 256 + data[6],
     pktCount |-> data[7] * 256 + data[8],
     sendTsMs |-> U32OfBytes(data[9], data[10], data[11], data[12])]

\* Create<Packet>(m_pktSize) is a zero-filled payload; AddHeader prepends the header
Payload(n) == [i \in 1..n |-> 0]

NewPacket(h, pktSize) == Serialize(h) \o Payload(pktSize)

(***************************************************************************)
(* VrReceiverApp.                                                          *)
(*                                                                         *)
(* The object is a record of its members.  m_socket is "null" or "open";   *)
(* accepted tells whether HandleTcpAccept has installed HandleTcpRead on   *)
(* a forked connection socket (that socket is owned by the TCP layer, the  *)
(* application keeps no pointer to it).  The fields g_* are history        *)
(* variables: they record what the handlers did and are read by no         *)
(* handler.                                                                *)
(*   g_started, g_swept  StartApplication / StopApplication have run       *)
(*   g_seen[fid]         the fragment indexes ProcessPacket saw for fid    *)
(*   g_class[fid]        one entry per classification of fid               *)
(*   g_overflows         number of overflow discards so far                *)
(*   g_since             the bytes RecvFrom returned since the last        *)
(*                       discard; g_fwd the headers forwarded since then   *)
(*   g_cleared           the buffer contents dropped by the last discard   *)
(*   g_short             number of headers decoded while the buffer held   *)
(*                       fewer bytes than a header                         *)
(*   g_over              m_tcpBuffer has held more bytes than              *)
(*                       m_tcpBufferSize at some point inside a handler    *)
(*   g_first[fid]        the count and timestamp declared by the first     *)
(*                       header handed to ProcessPacket for fid            *)
(***************************************************************************)
EmptyMap == [x \in {} |-> x]

Put(f, k, v) == [x \in (DOMAIN f) \cup {k} |-> IF x = k THEN v ELSE f[x]]

FrameState ==
    [pktCount |-> 0, arrived |-> 0, sendTsMs |-> 0, counted |-> FALSE, done |-> FALSE]

\* m_frames[fid]: the entry, value-initialised when absent
FrameAt(frames, fid) == IF fid \in DOMAIN frames THEN frames[fid] ELSE FrameState

VrReceiverApp(useTcp, deadlineMs, packetSize, bufferSize) ==
    [m_deadlineMs       |-> deadlineMs,
     m_totalFrames      |-> 0,
     m_onTimeFrames     |-> 0,
     m_lateFrames       |-> 0,
     m_incompleteFrames |-> 0,
     m_useTcp           |-> useTcp,
     m_tcpBufferSize    |-> bufferSize,
     m_packetSize       |-> packetSize,
     m_tcpBuffer        |-> <<>>,
     m_frames           |-> EmptyMap,
     m_delays           |-> <<>>,
     m_socket           |-> "null",
     accepted           |-> FALSE,
     g_started          |-> FALSE,
     g_swept            |-> FALSE,
     g_seen             |-> EmptyMap,
     g_class            |-> EmptyMap,
     g_overflows        |-> 0,
     g_since            |-> <<>>,
     g_fwd              |-> <<>>,
     g_cleared          |-> <<>>,
     g_short            |-> 0,
     g_over             |-> FALSE,
     g_first            |-> EmptyMap]

StartApplication(r) ==
    [r EXCEPT !.m_socket = "open", !.m_tcpBuffer = IF r.m_useTcp THEN <<>> ELSE @,
              !.g_started = TRUE]

HandleTcpAccept(r) == [r EXCEPT !.accepted = TRUE]

RECURSIVE SumOver(_, _)
\* sum of f[k] over k in S
SumOver(f, S) ==
    IF S = {} THEN 0
    ELSE LET k == CHOOSE x \in S : TRUE IN f[k] + SumOver(f, S \ {k})

\* the frames of m_frames that are counted and not done
OpenFrames(frames) == {fid \in DOMAIN frames : frames[fid].counted /\ ~frames[fid].done}

StopApplication_counted(r) ==
    [r EXCEPT !.m_socket = "null",
              !.m_incompleteFrames =
                  @ + Cardinality({fid \in DOMAIN r.m_frames : r.m_frames[fid].counted}),
              !.g_swept = TRUE]

StopApplication(r) ==
    [r EXCEPT !.m_socket = "null",
              !.m_incompleteFrames = @ + Cardinality(OpenFrames(r.m_frames)),
              !.g_swept = TRUE]

Completes_atLeast(st) == st.arrived >= st.pktCount

Completes_again(st) == st.arrived = st.pktCount

\* line 445: the frame reaches its declared count for the first time
Completes(st) == ~st.done /\ st.arrived = st.pktCount

OnTime_strict(delta, deadlineMs) == Ult32(delta, deadlineMs)

\* line 450: delta <= m_deadlineMs, both uint32_t
OnTime(delta, deadlineMs) == Ule32(delta, deadlineMs)

Uncounted_always(st) == TRUE

\* line 434: the frame has not been counted into m_totalFrames yet
Uncounted(st) == ~st.counted

ProcessPacket(r, hdr, nowMs) ==
    LET fid   == hdr.frameId
        st0   == FrameAt(r.m_frames, fid)
        first == Uncounted(st0)
        st1   == IF first
                 THEN [st0 EXCEPT !.counted = TRUE, !.pktCount = hdr.pktCount,
                                  !.sendTsMs = hdr.sendTsMs]
                 ELSE st0
        st2   == [st1 EXCEPT !.arrived = U16(@ + 1)]
        fire  == Completes(st2)
        delta == nowMs - st2.sendTsMs
        ok    == OnTime(delta, r.m_deadlineMs)
        st3   == IF fire THEN [st2 EXCEPT !.done = TRUE] ELSE st2
        seen  == IF fid \in DOMAIN r.g_seen THEN r.g_seen[fid] ELSE {}
        cls   == IF fid \in DOMAIN r.g_class THEN r.g_class[fid] ELSE <<>>
    IN  [r EXCEPT
           !.m_frames       = Put(@, fid, st3),
           !.m_totalFrames  = IF first THEN @ + 1 ELSE @,
           !.m_delays       = IF fire THEN Append(@, delta) ELSE @,
           !.m_onTimeFrames = IF fire /\ ok THEN @ + 1 ELSE @,
           !.m_lateFrames   = IF fire /\ ~ok THEN @ + 1 ELSE @,
           !.g_seen         = Put(@, fid, seen \cup {hdr.pktId}),
           !.g_first        = IF fid \in DOMAIN @ THEN @
                              ELSE Put(@, fid, [pktCount |-> hdr.pktCount,
                                                sendTsMs |-> hdr.sendTsMs]),
           !.g_class        = Put(@, fid,
                                  IF fire
                                  THEN Append(cls, [at |-> nowMs, delta |-> delta,
                                                    onTime |-> ok])
                                  ELSE cls)]

\* UDP: RecvFrom returned packet p; RemoveHeader strips the 12-byte header
HandleRead(r, p, nowMs) == ProcessPacket(r, Deserialize(p), nowMs)

Drop(s, n) == SubSeq(s, n + 1, Len(s))

Overflow_keep(buf) == buf

\* line 384: the buffer after an overflow
Overflow(buf) == <<>>

WouldOverflow_late(len, sz, cap) == len > cap

\* line 381: appending sz bytes to a buffer of len bytes would exceed cap
WouldOverflow(len, sz, cap) == len + sz > cap

RECURSIVE AppendSegments(_, _)
\* lines 377-393: the receive loop over the segments `segs` the socket holds.
\* Ends with the buffer, the segments left unread and whether it returned early.
AppendSegments(r, segs) ==
    IF segs = <<>>
    THEN [r |-> r, rest |-> <<>>, overflow |-> FALSE]
    ELSE LET pkt == Head(segs)
             sz  == Len(pkt)
         IN  IF WouldOverflow(Len(r.m_tcpBuffer), sz, r.m_tcpBufferSize)
             THEN [r |-> [r EXCEPT !.m_tcpBuffer = Overflow(@),
                                   !.g_overflows = @ + 1,
                                   !.g_cleared = r.m_tcpBuffer,
                                   !.g_since = <<>>,
                                   !.g_fwd = <<>>],
                   rest |-> Tail(segs), overflow |-> TRUE]
             ELSE AppendSegments([r EXCEPT !.m_tcpBuffer = @ \o pkt,
                                           !.g_since = @ \o pkt,
                                           !.g_over = @ \/ Len(r.m_tcpBuffer) + sz
                                                             > r.m_tcpBufferSize],
                                 Tail(segs))

\* no byte behind the end of the buffer: for block sizes of at least the
\* header size the decoder reads none
Unread == <<>>

RECURSIVE ParseBlocks(_, _, _)
\* lines 396-410: decode, forward and erase the front block while one is there.
\* DeserializeFromRaw reads 12 bytes from m_tcpBuffer.data() whatever the
\* buffer holds; `mem` is what the memory behind the buffer's end holds then.
ParseBlocks(r, nowMs, mem) ==
    IF Len(r.m_tcpBuffer) >= r.m_packetSize
    THEN LET short == Len(r.m_tcpBuffer) < GetSerializedSize
             hdr   == DeserializeFromRaw(IF short THEN r.m_tcpBuffer \o mem
                                         ELSE r.m_tcpBuffer)
             r1    == ProcessPacket(r, hdr, nowMs)
         IN  ParseBlocks([r1 EXCEPT !.m_tcpBuffer = Drop(@, r.m_packetSize),
                                    !.g_fwd = Append(@, hdr),
                                    !.g_short = IF short THEN @ + 1 ELSE @],
                         nowMs, mem)
    ELSE r

\* TCP: one invocation of the receive callback with `segs` in the socket
HandleTcpRead(r, segs, nowMs, mem) ==
    LET a == AppendSegments(r, segs)
    IN  IF a.overflow
        THEN [r |-> a.r, rest |-> a.rest]
        ELSE [r |-> ParseBlocks(a.r, nowMs, mem), rest |-> <<>>]

(***************************************************************************)
(* Spec: the receiver under any sequence of arrivals.                      *)
(*                                                                         *)
(* UDP: the channel may drop, duplicate and reorder, so any header the     *)
(* generator could have stamped by now may arrive next.  TCP: the stream   *)
(* is reliable and ordered, so its bytes are those the peer wrote: frame   *)
(* after frame, every fragment (header + payload) in index order.  The     *)
(* stream delivers them in segments of any length.                         *)
(***************************************************************************)
\* m_packetSize: header(12B) + payload
PacketSize == GetSerializedSize + PayloadBytes

\* the <<index, count>> pairs of well-formed headers: index < count
IndexCount ==
    {ic \in (0..MaxPktCount) \X (1..MaxPktCount) : ic[1] < ic[2]}

\* headers that may be on the channel at time t
Headers(t) ==
    {VrHeader(f, ic[1], ic[2], ts) :
        f \in 0..MaxFrameId, ic \in IndexCount, ts \in 0..MsOf(t)}

RECURSIVE SplitsOf(_, _)
\* the lengths of at most k non-empty segments covering at most n bytes
SplitsOf(n, k) ==
    IF k = 0 \/ n = 0 THEN {}
    ELSE {<<a>> : a \in 1..n}
         \cup UNION {{<<a>> \o t : t \in SplitsOf(n - a, k - 1)} : a \in 1..n}

RECURSIVE Cut(_, _)
\* the front of `bytes` cut into segments of the lengths `lens`
Cut(bytes, lens) ==
    IF lens = <<>> THEN <<>>
    ELSE <<SubSeq(bytes, 1, Head(lens))>> \o Cut(Drop(bytes, Head(lens)), Tail(lens))

RECURSIVE Total(_)
Total(lens) == IF lens = <<>> THEN 0 ELSE Head(lens) + Total(Tail(lens))

RECURSIVE Concat(_)
Concat(ss) == IF ss = <<>> THEN <<>> ELSE Head(ss) \o Concat(Tail(ss))

RECURSIVE BurstOf(_, _, _, _)
\* lines 186-197: the headers of fragments i..pkts-1 of one frame, in the order
\* the loop sends them
BurstOf(frameId, pkts, i, nowMs) ==
    IF i >= pkts THEN <<>>
    ELSE <<VrHeader(frameId, i, pkts, nowMs)>> \o BurstOf(frameId, pkts, i + 1, nowMs)

\* the bytes of the packets carrying the headers `hs`
PacketBytes(hs, pktSize) ==
    Concat([k \in 1..Len(hs) |-> NewPacket(hs[k], pktSize)])

EqVarsIdle == ref = 0 /\ inflight = <<>>

GenVarsIdle ==
    gen = 0 /\ agenda = <<>> /\ sent = <<>> /\ upSent = <<>> /\ halted = FALSE

AuxVarsIdle == codec = 0 /\ agg = 0 /\ chan = 0

Init ==
    /\ now = 0
    /\ \E useTcp \in BOOLEAN :
         /\ recv = VrReceiverApp(useTcp, DeadlineMs, PacketSize, TcpBufferSize)
         /\ IF useTcp THEN peerPkts \in 1..MaxPktCount ELSE peerPkts = 0
    /\ wire = <<>> /\ sockRx = <<>> /\ nsent = 0
    /\ EqVarsIdle
    /\ GenVarsIdle
    /\ AuxVarsIdle

\* Application start event of the receiver
RecvStart ==
    /\ ~recv.g_started
    /\ recv' = StartApplication(recv)
    /\ UNCHANGED <<now, chanVars, eqVars, genVars, auxVars>>

\* Application stop event of the receiver
RecvStop ==
    /\ recv.g_started /\ ~recv.g_swept
    /\ recv' = StopApplication(recv)
    /\ UNCHANGED <<now, chanVars, eqVars, genVars, auxVars>>

\* simulated time advances by one millisecond
Tick ==
    /\ MsOf(now) < MaxNowMs
    /\ now' = now + 1000
    /\ UNCHANGED <<recv, chanVars, eqVars, genVars, auxVars>>

\* a datagram reaches the bound UDP socket: its receive callback runs
UdpDeliver ==
    /\ ~recv.m_useTcp /\ recv.m_socket = "open"
    /\ nsent < MaxArrivals
    /\ \E h \in Headers(now) :
         recv' = HandleRead(recv, NewPacket(h, PayloadBytes), MsOf(now))
    /\ nsent' = nsent + 1
    /\ UNCHANGED <<now, wire, sockRx, peerPkts, eqVars, genVars, auxVars>>

\* a datagram reaches the node after the socket's Close(): no callback runs
UdpDiscard ==
    /\ ~recv.m_useTcp /\ recv.g_swept
    /\ nsent < MaxArrivals
    /\ nsent' = nsent + 1
    /\ UNCHANGED <<now, recv, wire, sockRx, peerPkts, eqVars, genVars, auxVars>>

\* the peer's connection is accepted by the listening socket
TcpAccept ==
    /\ recv.m_useTcp /\ recv.m_socket = "open" /\ ~recv.accepted
    /\ recv' = HandleTcpAccept(recv)
    /\ UNCHANGED <<now, chanVars, eqVars, genVars, auxVars>>

\* the peer (VrDownlinkApp over TCP, burst mode) writes its next frame to the
\* connection: every fragment of it, in index order, stamped now
TcpWrite ==
    /\ recv.accepted
    /\ nsent + peerPkts <= MaxFrags
    /\ wire' = wire \o PacketBytes(BurstOf(nsent \div peerPkts, peerPkts, 0, MsOf(now)),
                                    PayloadBytes)
    /\ nsent' = nsent + peerPkts
    /\ UNCHANGED <<now, recv, sockRx, peerPkts, eqVars, genVars, auxVars>>

\* the receive callback of the connection socket runs with the segments of
\* lengths `lens` newly arrived from the wire
TcpRead(lens, mem) ==
    LET got == HandleTcpRead(recv, sockRx \o Cut(wire, lens), MsOf(now), mem)
    IN  /\ recv' = got.r
        /\ sockRx' = got.rest
        /\ wire' = Drop(wire, Total(lens))

\* stream bytes reach the connection socket as one segment (RecvFrom on a TCP
\* socket returns all the bytes it holds as one packet)
TcpRecv ==
    /\ recv.accepted
    /\ \E lens \in SplitsOf(Len(wire), 1) : TcpRead(lens, Unread)
    /\ UNCHANGED <<now, nsent, peerPkts, eqVars, genVars, auxVars>>

Next ==
    \/ RecvStart
    \/ RecvStop
    \/ Tick
    \/ UdpDeliver
    \/ UdpDiscard
    \/ TcpAccept
    \/ TcpWrite
    \/ TcpRecv

Spec == Init /\ [][Next]_vars

(***************************************************************************)
(* SpecStream: the byte-stream path alone.  The receive loop of            *)
(* HandleTcpRead may find up to MaxSegs segments in the socket in one      *)
(* call; time stands still.                                                *)
(***************************************************************************)
InitStream ==
    /\ now = 0
    /\ recv = VrReceiverApp(TRUE, DeadlineMs, PacketSize, TcpBufferSize)
    /\ peerPkts \in 1..MaxPktCount
    /\ wire = <<>> /\ sockRx = <<>> /\ nsent = 0
    /\ EqVarsIdle
    /\ GenVarsIdle
    /\ AuxVarsIdle

TcpRecvSegs ==
    /\ recv.accepted
    /\ \E lens \in SplitsOf(Len(wire), MaxSegs) : TcpRead(lens, Unread)
    /\ UNCHANGED <<now, nsent, peerPkts, eqVars, genVars, auxVars>>

NextStream ==
    \/ RecvStart
    \/ TcpAccept
    \/ TcpWrite
    \/ TcpRecvSegs

SpecStream == InitStream /\ [][NextStream]_vars

(***************************************************************************)
(* SpecEquiv: the two receive paths side by side.  The peer writes any     *)
(* sequence of fragments; recv gets their bytes through the stream path in *)
(* segments of any length, ref gets each fragment as one datagram at the   *)
(* time its last byte reaches recv's socket.  The sweep ends the feeding.  *)
(***************************************************************************)
InitEquiv ==
    /\ now = 0
    /\ recv = VrReceiverApp(TRUE, DeadlineMs, PacketSize, TcpBufferSize)
    /\ ref = VrReceiverApp(FALSE, DeadlineMs, PacketSize, TcpBufferSize)
    /\ wire = <<>> /\ sockRx = <<>> /\ nsent = 0 /\ peerPkts = 0
    /\ inflight = <<>>
    /\ GenVarsIdle
    /\ AuxVarsIdle

\* both receivers start; the peer's connection to recv is accepted
EqStart ==
    /\ ~recv.g_started
    /\ recv' = HandleTcpAccept(StartApplication(recv))
    /\ ref' = StartApplication(ref)
    /\ UNCHANGED <<now, chanVars, inflight, genVars, auxVars>>

\* the peer sends one more fragment: any well-formed header, stamped now
EqWrite ==
    /\ recv.g_started /\ ~recv.g_swept
    /\ nsent < MaxEqFrags
    /\ \E h \in {x \in Headers(now) : x.sendTsMs = MsOf(now)} :
         LET p == NewPacket(h, PayloadBytes)
         IN  wire' = wire \o p /\ inflight' = Append(inflight, p)
    /\ nsent' = nsent + 1
    /\ UNCHANGED <<now, recv, sockRx, peerPkts, ref, genVars, auxVars>>

RECURSIVE ReadAll(_, _, _)
\* HandleRead once per datagram of `pkts`, in order
ReadAll(r, pkts, nowMs) ==
    IF pkts = <<>> THEN r
    ELSE ReadAll(HandleRead(r, Head(pkts), nowMs), Tail(pkts), nowMs)

\* segments reach recv's socket and its callback runs; the fragments whose last
\* byte is among them reach ref as datagrams at the same time
EqRecv ==
    /\ recv.g_started /\ ~recv.g_swept
    /\ \E lens \in SplitsOf(Len(wire), MaxSegs) :
         LET left  == Len(wire) - Total(lens)
             whole == Len(inflight) - ((left + PacketSize - 1) \div PacketSize)
         IN  /\ TcpRead(lens, Unread)
             /\ ref' = ReadAll(ref, SubSeq(inflight, 1, whole), MsOf(now))
             /\ inflight' = Drop(inflight, whole)
    /\ UNCHANGED <<now, nsent, peerPkts, genVars, auxVars>>

\* the shutdown sweep of both receivers
EqStop ==
    /\ recv.g_started /\ ~recv.g_swept
    /\ recv' = StopApplication(recv)
    /\ ref' = StopApplication(ref)
    /\ UNCHANGED <<now, chanVars, inflight, genVars, auxVars>>

\* simulated time advances by one millisecond while the run lasts
EqTick ==
    /\ ~recv.g_swept
    /\ Tick

NextEquiv ==
    \/ EqStart
    \/ EqTick
    \/ EqWrite
    \/ EqRecv
    \/ EqStop

SpecEquiv == InitEquiv /\ [][NextEquiv]_vars

(***************************************************************************)
(* SpecGen: VrDownlinkApp and VrUplinkApp under the simulator.             *)
(*                                                                         *)
(* The agenda is the simulator's event list in execution order: by time,   *)
(* and among equal times in the order of scheduling.  Each step executes   *)
(* the first event.  sent and upSent log what was handed to                *)
(* m_socket->Send, with the time of the call.                              *)
(***************************************************************************)
\* configurations explored: frame sizes and payload sizes in bytes, intervals
\* in microseconds
FrameSizes == 0..4

PktSizes == {1, 2}

FrameIntervals == {2000, 3000}

PacingIntervals == {500, 1000}

UplinkIntervals == {1000}

Event(at, ev, frameId, pkts, idx) ==
    [at |-> at, ev |-> ev, frameId |-> frameId, pkts |-> pkts, idx |-> idx]

\* Simulator::Schedule: the event goes behind every event that is not later
Schedule(ag, e) ==
    LET k == Cardinality({j \in 1..Len(ag) : ag[j].at <= e.at})
    IN  SubSeq(ag, 1, k) \o <<e>> \o SubSeq(ag, k + 1, Len(ag))

\* line 180: #pkts = ceil(frameSize / pktSize), for sums below 2^31
Pkts(g) == (g.m_frameSize + g.m_pktSize - 1) \div g.m_pktSize

\* Time::IsPositive: zero counts as positive
IsPositive(t) == t >= 0

BurstDelay_paced(g) == g.m_frameInterval - Pkts(g) * g.m_pacingInterval

\* line 200: the delay to the next frame tick in burst mode
BurstDelay(g) == g.m_frameInterval

Stamped(t, hs) == [k \in 1..Len(hs) |-> [t |-> t, hdr |-> hs[k]]]

\* lines 210-241, called at time t
SendOneFragment(g, ag, log, t, frameId, pkts, idx) ==
    LET log1      == Append(log, [t |-> t, hdr |-> VrHeader(frameId, idx, pkts, MsOf(t))])
        remaining == g.m_frameInterval - pkts * g.m_pacingInterval
    IN  IF idx + 1 < pkts
        THEN [gen |-> g, sent |-> log1,
              agenda |-> Schedule(ag, Event(t + g.m_pacingInterval, "SendOneFragment",
                                            frameId, pkts, idx + 1))]
        ELSE [gen |-> g, sent |-> log1,
              agenda |-> Schedule(ag, Event(t + (IF IsPositive(remaining)
                                                 THEN remaining ELSE 1),
                                            "SendFrame", 0, 0, 0))]

SendFrame_sameId(g, ag, log, t) ==
    LET pkts    == Pkts(g)
        frameId == g.m_frameCounter
    IN  IF ~g.m_usePacing
        THEN [gen |-> g,
              sent |-> log \o Stamped(t, BurstOf(frameId, pkts, 0, MsOf(t))),
              agenda |-> Schedule(ag, Event(t + BurstDelay(g), "SendFrame", 0, 0, 0))]
        ELSE SendOneFragment(g, ag, log, t, frameId, pkts, 0)

\* lines 177-207, called at time t
SendFrame(g, ag, log, t) ==
    LET pkts    == Pkts(g)
        frameId == g.m_frameCounter
        g1      == [g EXCEPT !.m_frameCounter = @ + 1]
    IN  IF ~g.m_usePacing
        THEN [gen |-> g1,
              sent |-> log \o Stamped(t, BurstOf(frameId, pkts, 0, MsOf(t))),
              agenda |-> Schedule(ag, Event(t + BurstDelay(g), "SendFrame", 0, 0, 0))]
        ELSE SendOneFragment(g1, ag, log, t, frameId, pkts, 0)

\* lines 537-548, called at time t
SendOne(g, ag, log, t) ==
    [upSent |-> Append(log, [t |-> t, ts |-> MsOf(t)]),
     agenda |-> Schedule(ag, Event(t + g.m_interval, "SendOne", 0, 0, 0))]

\* Application::DoInitialize of the two generators and Simulator::Stop in main:
\* the start and stop events of each application, and the simulator's stop
InitialAgenda ==
    Schedule(Schedule(Schedule(Schedule(Schedule(<<>>,
        Event(SimStopUs, "SimStop", 0, 0, 0)),
        Event(AppStartUs, "DlStart", 0, 0, 0)),
        Event(AppStopUs, "DlStop", 0, 0, 0)),
        Event(AppStartUs, "UpStart", 0, 0, 0)),
        Event(AppStopUs, "UpStop", 0, 0, 0))

InitGen ==
    /\ now = 0
    /\ \E fs \in FrameSizes, ps \in PktSizes, fi \in FrameIntervals,
          pi \in PacingIntervals, ui \in UplinkIntervals, pacing \in BOOLEAN :
         gen = [m_frameSize |-> fs, m_pktSize |-> ps, m_frameInterval |-> fi,
                m_pacingInterval |-> pi, m_usePacing |-> pacing,
                m_frameCounter |-> 0, m_interval |-> ui]
    /\ agenda = InitialAgenda
    /\ sent = <<>> /\ upSent = <<>> /\ halted = FALSE
    /\ recv = 0 /\ wire = <<>> /\ sockRx = <<>> /\ nsent = 0 /\ peerPkts = 0
    /\ EqVarsIdle
    /\ AuxVarsIdle

\* the simulator takes the first event from the list: its time becomes Now
Runs(ev) ==
    /\ ~halted
    /\ agenda # <<>>
    /\ Head(agenda).ev = ev
    /\ now' = Head(agenda).at

\* VrDownlinkApp::StartApplication: Connect, then SendFrame()
DlStartApplication ==
    /\ Runs("DlStart")
    /\ LET r == SendFrame(gen, Tail(agenda), sent, now')
       IN  gen' = r.gen /\ agenda' = r.agenda /\ sent' = r.sent
    /\ UNCHANGED <<recv, chanVars, eqVars, upSent, halted, auxVars>>

\* the scheduled VrDownlinkApp::SendFrame
DlSendFrame ==
    /\ Runs("SendFrame")
    /\ LET r == SendFrame(gen, Tail(agenda), sent, now')
       IN  gen' = r.gen /\ agenda' = r.agenda /\ sent' = r.sent
    /\ UNCHANGED <<recv, chanVars, eqVars, upSent, halted, auxVars>>

\* the scheduled VrDownlinkApp::SendOneFragment
DlSendOneFragment ==
    /\ Runs("SendOneFragment")
    /\ LET e == Head(agenda)
           r == SendOneFragment(gen, Tail(agenda), sent, now', e.frameId, e.pkts, e.idx)
       IN  gen' = r.gen /\ agenda' = r.agenda /\ sent' = r.sent
    /\ UNCHANGED <<recv, chanVars, eqVars, upSent, halted, auxVars>>

\* VrDownlinkApp has no StopApplication: Application's empty one runs
DlStopApplication ==
    /\ Runs("DlStop")
    /\ agenda' = Tail(agenda)
    /\ UNCHANGED <<recv, chanVars, eqVars, gen, sent, upSent, halted, auxVars>>

\* VrUplinkApp::StartApplication: Connect, then SendOne()
UpStartApplication ==
    /\ Runs("UpStart")
    /\ LET r == SendOne(gen, Tail(agenda), upSent, now')
       IN  agenda' = r.agenda /\ upSent' = r.upSent
    /\ UNCHANGED <<recv, chanVars, eqVars, gen, sent, halted, auxVars>>

\* the scheduled VrUplinkApp::SendOne
UpSendOne ==
    /\ Runs("SendOne")
    /\ LET r == SendOne(gen, Tail(agenda), upSent, now')
       IN  agenda' = r.agenda /\ upSent' = r.upSent
    /\ UNCHANGED <<recv, chanVars, eqVars, gen, sent, halted, auxVars>>

\* VrUplinkApp has no StopApplication: Application's empty one runs
UpStopApplication ==
    /\ Runs("UpStop")
    /\ agenda' = Tail(agenda)
    /\ UNCHANGED <<recv, chanVars, eqVars, gen, sent, upSent, halted, auxVars>>

\* the event of Simulator::Stop: Run returns, later events are never invoked
SimulatorStop ==
    /\ Runs("SimStop")
    /\ agenda' = Tail(agenda)
    /\ halted' = TRUE
    /\ UNCHANGED <<recv, chanVars, eqVars, gen, sent, upSent, auxVars>>

NextGen ==
    \/ DlStartApplication
    \/ DlSendFrame
    \/ DlSendOneFragment
    \/ DlStopApplication
    \/ UpStartApplication
    \/ UpSendOne
    \/ UpStopApplication
    \/ SimulatorStop

SpecGen == InitGen /\ [][NextGen]_vars

(***************************************************************************)
(* SpecRaw: the byte-stream path of a receiver whose block size was set    *)
(* with SetPacketSize, possibly below the header size.  The peer writes    *)
(* fragments of PacketSize bytes.  A decode that reads behind the end of   *)
(* the buffer finds any bytes there.                                       *)
(***************************************************************************)
\* block sizes given to SetPacketSize
RawPacketSizes == {4, PacketSize}

\* what the 12 bytes behind the buffer's end may hold
StaleBytes == {[i \in 1..GetSerializedSize |-> b] : b \in {0, 255}}

InitRaw ==
    /\ now = 0
    /\ \E p \in RawPacketSizes :
         recv = VrReceiverApp(TRUE, DeadlineMs, p, TcpBufferSize)
    /\ peerPkts \in 1..MaxPktCount
    /\ wire = <<>> /\ sockRx = <<>> /\ nsent = 0
    /\ EqVarsIdle
    /\ GenVarsIdle
    /\ AuxVarsIdle

\* stream bytes reach the connection socket as one segment and the callback runs
RawRecv ==
    /\ recv.accepted
    /\ \E lens \in SplitsOf(Len(wire), 1), mem \in StaleBytes : TcpRead(lens, mem)
    /\ UNCHANGED <<now, nsent, peerPkts, eqVars, genVars, auxVars>>

\* the peer writes its next frame
RawWrite ==
    /\ nsent < MaxRawFrags
    /\ TcpWrite

NextRaw ==
    \/ RecvStart
    \/ TcpAccept
    \/ RawWrite
    \/ RawRecv

SpecRaw == InitRaw /\ [][NextRaw]_vars

(***************************************************************************)
(* SpecCodec: the header codec alone.  A header is built from field values *)
(* that cover every byte position, serialized, and read back by both       *)
(* decoders.                                                               *)
(***************************************************************************)
\* uint32_t values: 0, 1, powers of 256 around the byte borders, 2^31-1, 2^31
\* and 2^32-1
U32Samples == {0, 1, 255, 256, 65536, 16777216, 2147483647, -2147483647 - 1, -1}

\* uint16_t values
U16Samples == {0, 1, 255, 256, 65535}

InitCodec ==
    /\ now = 0 /\ recv = 0
    /\ wire = <<>> /\ sockRx = <<>> /\ nsent = 0 /\ peerPkts = 0
    /\ EqVarsIdle
    /\ GenVarsIdle
    /\ agg = 0 /\ chan = 0
    /\ \E f \in U32Samples, i \in U16Samples, c \in U16Samples, ts \in U32Samples :
         codec = [stage |-> "new", hdr |-> VrHeader(f, i, c, ts), bytes |-> <<>>,
                  viaDeserialize |-> 0, viaRaw |-> 0]

\* AddHeader: the header is serialized into the packet
CodecSerialize ==
    /\ codec.stage = "new"
    /\ codec' = [codec EXCEPT !.stage = "encoded", !.bytes = Serialize(codec.hdr)]
    /\ UNCHANGED <<now, recv, chanVars, eqVars, genVars, agg, chan>>

\* RemoveHeader (Deserialize) on the datagram path, DeserializeFromRaw on the
\* stream path, on the same 12 bytes
CodecDeserialize ==
    /\ codec.stage = "encoded"
    /\ codec' = [codec EXCEPT !.stage = "decoded",
                              !.viaDeserialize = Deserialize(codec.bytes),
                              !.viaRaw = DeserializeFromRaw(codec.bytes)]
    /\ UNCHANGED <<now, recv, chanVars, eqVars, genVars, agg, chan>>

NextCodec ==
    \/ CodecSerialize
    \/ CodecDeserialize

SpecCodec == InitCodec /\ [][NextCodec]_vars

(***************************************************************************)
(* SpecAgg: the delay statistics.  The downlink series (VrReceiverApp::     *)
(* m_delays, read by the getters) and the uplink series (VrUplinkReceiver:: *)
(* m_delays, aggregated in main) receive the same delays; then both are     *)
(* reported.  An average is the exact fraction num/den.                     *)
(***************************************************************************)
DelaySamples == {0, 1, 2, 10}

\* the series 1, 2, ..., n
Ramp(n) == [i \in 1..n |-> i]

\* the series n, n-1, ..., 1
RampDown(n) == [i \in 1..n |-> n + 1 - i]

\* series present when the model starts: none, and three recorded runs
StartSeries == {<<>>, <<10, 10, 10>>, Ramp(100), RampDown(101)}

RECURSIVE SumRange(_, _, _)
\* d[lo] + ... + d[hi], added up as a balanced tree
SumRange(d, lo, hi) ==
    IF lo > hi THEN 0
    ELSE IF lo = hi THEN d[lo]
    ELSE LET mid == (lo + hi) \div 2
         IN  SumRange(d, lo, mid) + SumRange(d, mid + 1, hi)

\* for (uint32_t d : m_delays) sum += d, in 64 bits
SumOf(d) == SumRange(d, 1, Len(d))

\* the place (from 1) of entry k of d in ascending order, equal entries in
\* their order of arrival
PlaceOf(d, k) ==
    1 + Cardinality({j \in 1..Len(d) : Ult32(d[j], d[k]) \/ (d[j] = d[k] /\ j < k)})

\* std::sort on uint32_t: the entries in ascending order
Sort(d) == [i \in 1..Len(d) |-> d[CHOOSE k \in 1..Len(d) : PlaceOf(d, k) = i]]

\* std::max on uint32_t
Max32(a, b) == IF Ult32(a, b) THEN b ELSE a

RECURSIVE MaxRange(_, _, _)
\* the largest of d[lo], ..., d[hi], lo <= hi, compared as a balanced tree
MaxRange(d, lo, hi) ==
    IF lo = hi THEN d[lo]
    ELSE LET mid == (lo + hi) \div 2
         IN  Max32(MaxRange(d, lo, mid), MaxRange(d, mid + 1, hi))

\* the running maximum over d, started at m
MaxElement(d, m) == IF d = <<>> THEN m ELSE Max32(m, MaxRange(d, 1, Len(d)))

P99Index_last(n) == n - 1

\* static_cast<size_t>(size * 0.99): the double product truncated.  The double
\* nearest to 0.99 is below 0.99 by less than 1e-17, and for sizes below 2^45
\* the rounded product has the integer part of size * 99 / 100.
P99Index(n) == (n * 99) \div 100

\* lines 299-301 and 754-756: the index, clamped to the last element
P99Of(srt) ==
    LET idx == P99Index(Len(srt))
    IN  srt[IF idx >= Len(srt) THEN Len(srt) ELSE idx + 1]

Fraction(num, den) == [num |-> num, den |-> den]

\* lines 289-294
GetAvgDelay(d) == IF d = <<>> THEN Fraction(0, 1) ELSE Fraction(SumOf(d), Len(d))

\* lines 296-303
GetP99Delay(d) == IF d = <<>> THEN 0 ELSE P99Of(Sort(d))

\* lines 305-308
GetMaxDelay(d) == IF d = <<>> THEN 0 ELSE MaxElement(Tail(d), Head(d))

\* lines 741-763: the uplink aggregation of main, which sorts the series in place
UplinkAggregate(d) ==
    IF d = <<>>
    THEN [avg |-> Fraction(0, 1), p99 |-> 0, max |-> 0, m_delays |-> d]
    ELSE [avg |-> Fraction(SumOf(d), Len(d)), p99 |-> P99Of(Sort(d)),
          max |-> MaxElement(d, 0), m_delays |-> Sort(d)]

Ratio_swapped(r) == Fraction(r.m_totalFrames, r.m_onTimeFrames)

\* line 786: ratio = total ? (double)ontime / total : 0.0
Ratio(r) ==
    IF r.m_totalFrames # 0 THEN Fraction(r.m_onTimeFrames, r.m_totalFrames)
    ELSE Fraction(0, 1)

InitAgg ==
    /\ now = 0 /\ recv = 0
    /\ wire = <<>> /\ sockRx = <<>> /\ nsent = 0 /\ peerPkts = 0
    /\ EqVarsIdle
    /\ GenVarsIdle
    /\ codec = 0 /\ chan = 0
    /\ \E d \in StartSeries :
         agg = [stage |-> "run", series |-> d, dl |-> d, ul |-> d,
                dlReport |-> 0, ulReport |-> 0]

\* a frame completes and an uplink sample arrives with the same delay:
\* m_delays.push_back on both receivers
AggPush ==
    /\ agg.stage = "run"
    /\ Len(agg.series) < MaxSeries
    /\ \E d \in DelaySamples :
         agg' = [agg EXCEPT !.series = Append(@, d), !.dl = Append(@, d),
                            !.ul = Append(@, d)]
    /\ UNCHANGED <<now, recv, chanVars, eqVars, genVars, codec, chan>>

\* after Simulator::Run: main aggregates the uplink series and the getters are
\* read on the downlink series
AggReport ==
    /\ agg.stage = "run"
    /\ LET u == UplinkAggregate(agg.ul)
       IN  agg' = [agg EXCEPT
                     !.stage    = "done",
                     !.ul       = u.m_delays,
                     !.ulReport = [avg |-> u.avg, p99 |-> u.p99, max |-> u.max],
                     !.dlReport = [avg |-> GetAvgDelay(agg.dl),
                                   p99 |-> GetP99Delay(agg.dl),
                                   max |-> GetMaxDelay(agg.dl)]]
    /\ UNCHANGED <<now, recv, chanVars, eqVars, genVars, codec, chan>>

NextAgg ==
    \/ AggPush
    \/ AggReport

SpecAgg == InitAgg /\ [][NextAgg]_vars

(***************************************************************************)
(* SpecLoss: the datagram path behind a channel that drops and reorders    *)
(* but never duplicates.  The generator's frames have Pkts(gen) fragments  *)
(* each; a fragment is the unit <<frameId, index>>.  The channel hands     *)
(* each unit to the receiver at most once; a unit it never hands over is   *)
(* dropped.  chan.delivered is the set of units handed over, chan.stamp[f] *)
(* the send timestamp of frame f (burst mode: one per frame).              *)
(***************************************************************************)
\* frame sizes in bytes, with one payload byte per fragment: 2, 3 and 65537
\* fragments per frame
LossFrameSizes == {2, 3, 65537}

\* the fragment indexes of a frame of n fragments that the channel may deliver:
\* the first three and the last
LossIndexes(n) == {i \in {0, 1, 2, n - 1} : i < n}

InitLoss ==
    /\ now = 0
    /\ recv = VrReceiverApp(FALSE, DeadlineMs, PacketSize, TcpBufferSize)
    /\ wire = <<>> /\ sockRx = <<>> /\ nsent = 0 /\ peerPkts = 0
    /\ EqVarsIdle
    /\ \E fs \in LossFrameSizes :
         gen = [m_frameSize |-> fs, m_pktSize |-> PayloadBytes,
                m_frameInterval |-> 0, m_pacingInterval |-> 0,
                m_usePacing |-> FALSE, m_frameCounter |-> 0, m_interval |-> 0]
    /\ agenda = <<>> /\ sent = <<>> /\ upSent = <<>> /\ halted = FALSE
    /\ codec = 0 /\ agg = 0
    /\ chan = [delivered |-> {}, stamp |-> EmptyMap]

\* the channel hands unit <<f, i>> to the bound socket: HandleRead runs.  The
\* header is the one SendFrame built for it (lines 189-193).
LossDeliver ==
    /\ recv.m_socket = "open"
    /\ \E f \in 0..MaxFrameId, i \in LossIndexes(Pkts(gen)), t \in 0..MsOf(now) :
         LET ts == IF f \in DOMAIN chan.stamp THEN chan.stamp[f] ELSE t
             h  == VrHeader(f, i, Pkts(gen), ts)
         IN  /\ <<f, i>> \notin chan.delivered
             /\ recv' = HandleRead(recv, NewPacket(h, PayloadBytes), MsOf(now))
             /\ chan' = [chan EXCEPT !.delivered = @ \cup {<<f, i>>},
                                     !.stamp = Put(@, f, ts)]
    /\ UNCHANGED <<now, chanVars, eqVars, genVars, codec, agg>>

NextLoss ==
    \/ RecvStart
    \/ RecvStop
    \/ Tick
    \/ LossDeliver

SpecLoss == InitLoss /\ [][NextLoss]_vars

(***************************************************************************)
(* SpecOrder: two receivers behind two channels that carry the fragments   *)
(* of frame 0 in different orders.  The downlink generator runs under the  *)
(* simulator as in SpecGen; each fragment of frame 0 it has sent reaches   *)
(* recv once and ref once, at any later time and in any order, except that *)
(* the last fragment reaches both at the same time.  chan.toRecv and       *)
(* chan.toRef are the positions in `sent` of the units handed over.        *)
(***************************************************************************)
\* frame sizes in bytes, with one payload byte per fragment
OrderFrameSizes == {2, 3}

\* Application::DoInitialize of the downlink generator and Simulator::Stop
OrderAgenda ==
    Schedule(Schedule(Schedule(<<>>,
        Event(SimStopUs, "SimStop", 0, 0, 0)),
        Event(AppStartUs, "DlStart", 0, 0, 0)),
        Event(AppStopUs, "DlStop", 0, 0, 0))

InitOrder ==
    /\ now = 0
    /\ recv = VrReceiverApp(FALSE, DeadlineMs, PacketSize, TcpBufferSize)
    /\ ref = VrReceiverApp(FALSE, DeadlineMs, PacketSize, TcpBufferSize)
    /\ wire = <<>> /\ sockRx = <<>> /\ nsent = 0 /\ peerPkts = 0
    /\ inflight = <<>>
    /\ \E fs \in OrderFrameSizes, fi \in FrameIntervals, pi \in PacingIntervals,
          pacing \in BOOLEAN :
         gen = [m_frameSize |-> fs, m_pktSize |-> PayloadBytes, m_frameInterval |-> fi,
                m_pacingInterval |-> pi, m_usePacing |-> pacing,
                m_frameCounter |-> 0, m_interval |-> 0]
    /\ agenda = OrderAgenda
    /\ sent = <<>> /\ upSent = <<>> /\ halted = FALSE
    /\ codec = 0 /\ agg = 0
    /\ chan = [toRecv |-> {}, toRef |-> {}]

\* the start events of both receivers (time 0)
OrdStart ==
    /\ now = 0 /\ ~recv.g_started
    /\ recv' = StartApplication(recv)
    /\ ref' = StartApplication(ref)
    /\ UNCHANGED <<now, chanVars, inflight, genVars, auxVars>>

\* positions in `sent` of the fragments of frame 0 not yet handed to the
\* receiver that got the units `got`
Pending(got) == {k \in 1..Len(sent) : sent[k].hdr.frameId = 0 /\ k \notin got}

\* number of fragments of frame 0 the receiver that got `got` still misses
Missing(got) == Pkts(gen) - Cardinality(got)

\* a fragment of frame 0, not the last one missing, reaches recv
OrdDeliverRecv ==
    /\ recv.g_started /\ ~halted
    /\ Missing(chan.toRecv) > 1
    /\ \E k \in Pending(chan.toRecv) :
         /\ recv' = HandleRead(recv, NewPacket(sent[k].hdr, PayloadBytes), MsOf(now))
         /\ chan' = [chan EXCEPT !.toRecv = @ \cup {k}]
    /\ UNCHANGED <<now, chanVars, eqVars, genVars, codec, agg>>

\* a fragment of frame 0, not the last one missing, reaches ref
OrdDeliverRef ==
    /\ ref.g_started /\ ~halted
    /\ Missing(chan.toRef) > 1
    /\ \E k \in Pending(chan.toRef) :
         /\ ref' = HandleRead(ref, NewPacket(sent[k].hdr, PayloadBytes), MsOf(now))
         /\ chan' = [chan EXCEPT !.toRef = @ \cup {k}]
    /\ UNCHANGED <<now, recv, chanVars, inflight, genVars, codec, agg>>

\* the last missing fragment reaches each receiver, at the same time
OrdLast ==
    /\ recv.g_started /\ ~halted
    /\ Missing(chan.toRecv) = 1 /\ Missing(chan.toRef) = 1
    /\ \E k \in Pending(chan.toRecv), l \in Pending(chan.toRef) :
         /\ recv' = HandleRead(recv, NewPacket(sent[k].hdr, PayloadBytes), MsOf(now))
         /\ ref' = HandleRead(ref, NewPacket(sent[l].hdr, PayloadBytes), MsOf(now))
         /\ chan' = [toRecv |-> chan.toRecv \cup {k}, toRef |-> chan.toRef \cup {l}]
    /\ UNCHANGED <<now, chanVars, inflight, genVars, codec, agg>>

NextOrder ==
    \/ OrdStart
    \/ DlStartApplication
    \/ DlSendFrame
    \/ DlSendOneFragment
    \/ DlStopApplication
    \/ SimulatorStop
    \/ OrdDeliverRecv
    \/ OrdDeliverRef
    \/ OrdLast

SpecOrder == InitOrder /\ [][NextOrder]_vars

(***************************************************************************)
(* SpecChan: end to end over the datagram transports.  The downlink        *)
(* generator and the receiver run under the simulator; every fragment the  *)
(* generator sends is handed to the receiver's socket exactly once, at a   *)
(* time the channel chooses between the send and the send plus the         *)
(* deadline.  chan.got holds the positions in `sent` handed over, and      *)
(* chan.fifo tells whether every hand-over so far took the oldest fragment *)
(* in flight.                                                              *)
(***************************************************************************)
\* the deadline in milliseconds given to SetDeadlineMs
ChanDeadlineMs == 2

\* frame size in bytes, with one payload byte per fragment
ChanFrameSizes == {2}

\* frame interval in microseconds: below the deadline, as 33 ms is below 80 ms
ChanFrameIntervals == {1000}

\* pacing interval in microseconds
ChanPacingIntervals == {1000}

\* the longest stay of a fragment in the channel, in microseconds
DelayBound == ChanDeadlineMs * 1000

\* main, lines 696-706: start and stop of the downlink generator and of the
\* receiver, and Simulator::Stop
ChanAgenda ==
    Schedule(Schedule(Schedule(Schedule(Schedule(<<>>,
        Event(SimStopUs, "SimStop", 0, 0, 0)),
        Event(AppStartUs, "DlStart", 0, 0, 0)),
        Event(AppStopUs, "DlStop", 0, 0, 0)),
        Event(0, "RecvStart", 0, 0, 0)),
        Event(AppStopUs, "RecvStop", 0, 0, 0))

InitChan ==
    /\ now = 0
    /\ recv = VrReceiverApp(FALSE, ChanDeadlineMs, PacketSize, TcpBufferSize)
    /\ wire = <<>> /\ sockRx = <<>> /\ nsent = 0 /\ peerPkts = 0
    /\ EqVarsIdle
    /\ \E fs \in ChanFrameSizes, fi \in ChanFrameIntervals, pi \in ChanPacingIntervals,
          pacing \in BOOLEAN :
         gen = [m_frameSize |-> fs, m_pktSize |-> PayloadBytes, m_frameInterval |-> fi,
                m_pacingInterval |-> pi, m_usePacing |-> pacing,
                m_frameCounter |-> 0, m_interval |-> 0]
    /\ agenda = ChanAgenda
    /\ sent = <<>> /\ upSent = <<>> /\ halted = FALSE
    /\ codec = 0 /\ agg = 0
    /\ chan = [got |-> {}, fifo |-> TRUE]

\* positions in `sent` of the fragments still in the channel.  Once the
\* receiver has closed its socket (line 349) every datagram for it is
\* discarded on arrival: those are not followed.
InFlight == IF recv.g_swept THEN {} ELSE {k \in 1..Len(sent) : k \notin chan.got}

\* the next event is not later than any fragment in flight may stay
Timely ==
    /\ agenda # <<>>
    /\ \A k \in InFlight : Head(agenda).at <= sent[k].t + DelayBound

\* the receiver's start event: VrReceiverApp::StartApplication
ChanRecvStart ==
    /\ Timely
    /\ Runs("RecvStart")
    /\ recv' = StartApplication(recv)
    /\ agenda' = Tail(agenda)
    /\ UNCHANGED <<chanVars, eqVars, gen, sent, upSent, halted, auxVars>>

\* the receiver's stop event: VrReceiverApp::StopApplication
ChanRecvStop ==
    /\ Timely
    /\ Runs("RecvStop")
    /\ recv' = StopApplication(recv)
    /\ agenda' = Tail(agenda)
    /\ UNCHANGED <<chanVars, eqVars, gen, sent, upSent, halted, auxVars>>

ChanDlStart == Timely /\ DlStartApplication

ChanDlSendFrame == Timely /\ DlSendFrame

ChanDlSendOneFragment == Timely /\ DlSendOneFragment

ChanDlStop == Timely /\ DlStopApplication

ChanSimulatorStop == Timely /\ SimulatorStop

\* the channel hands fragment k to the bound socket at the current time:
\* HandleRead runs
ChanDeliver ==
    /\ ~halted
    /\ recv.m_socket = "open"
    /\ \E k \in InFlight :
         /\ recv' = HandleRead(recv, NewPacket(sent[k].hdr, PayloadBytes), MsOf(now))
         /\ chan' = [got |-> chan.got \cup {k},
                     fifo |-> chan.fifo /\ \A j \in InFlight : k <= j]
    /\ UNCHANGED <<now, chanVars, eqVars, genVars, codec, agg>>

NextChan ==
    \/ ChanRecvStart
    \/ ChanRecvStop
    \/ ChanDlStart
    \/ ChanDlSendFrame
    \/ ChanDlSendOneFragment
    \/ ChanDlStop
    \/ ChanSimulatorStop
    \/ ChanDeliver

SpecChan == InitChan /\ [][NextChan]_vars

(***************************************************************************)
(* SpecDup: the datagram path after frame 0 has completed.  The run starts *)
(* when frame 0, of one or two fragments stamped 0, has been classified    *)
(* and has since got so many further copies of its fragment 0 that its     *)
(* 16-bit arrival counter stands at chan.start.  Then the channel carries  *)
(* any headers, duplicates included; chan.last is the header carried last. *)
(***************************************************************************)
\* the values of uint16_t arrived from which the run goes on
ArrivedStarts(c) == {c, TwoTo16 - 2, TwoTo16 - 1}

\* the receiver after StartApplication and one HandleRead per fragment of
\* frame 0 (c fragments, stamped 0, at time 0)
AfterFrame0(c) ==
    ReadAll(StartApplication(VrReceiverApp(FALSE, DeadlineMs, PacketSize, TcpBufferSize)),
            [k \in 1..c |-> NewPacket(BurstOf(0, c, 0, 0)[k], PayloadBytes)], 0)

\* line 442 executed for frame 0 until st.arrived is a
AfterCopies(r, a) == [r EXCEPT !.m_frames[0].arrived = a]

InitDup ==
    /\ now = 0
    /\ \E c \in 1..MaxPktCount :
         \E a \in ArrivedStarts(c) :
            /\ recv = AfterCopies(AfterFrame0(c), a)
            /\ chan = [start |-> a, last |-> VrHeader(0, 0, c, 0)]
    /\ wire = <<>> /\ sockRx = <<>> /\ nsent = 0 /\ peerPkts = 0
    /\ EqVarsIdle
    /\ GenVarsIdle
    /\ codec = 0 /\ agg = 0

\* a datagram reaches the bound UDP socket: its receive callback runs
DupDeliver ==
    /\ recv.m_socket = "open"
    /\ nsent < MaxDup
    /\ \E h \in Headers(now) :
         /\ recv' = HandleRead(recv, NewPacket(h, PayloadBytes), MsOf(now))
         /\ chan' = [chan EXCEPT !.last = h]
    /\ nsent' = nsent + 1
    /\ UNCHANGED <<now, wire, sockRx, peerPkts, eqVars, genVars, codec, agg>>

NextDup ==
    \/ DupDeliver
    \/ Tick
    \/ RecvStop

SpecDup == InitDup /\ [][NextDup]_vars

(***************************************************************************)
(* SpecResync: the byte-stream path across an overflow discard.  The peer  *)
(* writes up to MaxResyncFrags fragments; every invocation of the receive  *)
(* callback finds one segment of any length in the socket.  Time stands    *)
(* still at 0, so every header the peer writes is stamped 0.               *)
(***************************************************************************)
InitResync ==
    /\ now = 0
    /\ recv = VrReceiverApp(TRUE, DeadlineMs, PacketSize, TcpBufferSize)
    /\ peerPkts \in 1..MaxPktCount
    /\ wire = <<>> /\ sockRx = <<>> /\ nsent = 0
    /\ EqVarsIdle
    /\ GenVarsIdle
    /\ AuxVarsIdle

\* the peer writes its next frame: every fragment of it, in index order
ResyncWrite ==
    /\ recv.accepted
    /\ nsent + peerPkts <= MaxResyncFrags
    /\ wire' = wire \o PacketBytes(BurstOf(nsent \div peerPkts, peerPkts, 0, MsOf(now)),
                                    PayloadBytes)
    /\ nsent' = nsent + peerPkts
    /\ UNCHANGED <<now, recv, sockRx, peerPkts, eqVars, genVars, auxVars>>

NextResync ==
    \/ RecvStart
    \/ TcpAccept
    \/ ResyncWrite
    \/ TcpRecv

SpecResync == InitResync /\ [][NextResync]_vars

(***************************************************************************)
(* SpecUp: the uplink.  VrUplinkApp runs under the simulator as in SpecGen *)
(* and VrUplinkReceiver sits behind a channel that hands each sample over  *)
(* at most once, at any time after it was sent and in any order; a sample  *)
(* it never hands over is dropped.  chan.ulRecv is the VrUplinkReceiver    *)
(* object, chan.log the channel's record of its hand-overs: the position   *)
(* of the sample in upSent and the millisecond of the hand-over.           *)
(***************************************************************************)
\* UplinkHeader::Serialize, lines 501-503
UplinkSerialize(ts) == WriteHtonU32(ts)

\* UplinkHeader::Deserialize, lines 505-508
UplinkDeserialize(data) == ReadNtohU32(data, 1)

\* lines 541-543: Create<Packet>(m_pktSize), AddHeader(UplinkHeader(nowMs))
NewUplinkPacket(ts, pktSize) == UplinkSerialize(ts) \o Payload(pktSize)

VrUplinkReceiver == [m_socket |-> "null", m_delays |-> <<>>]

\* VrUplinkReceiver::StartApplication, lines 562-569
UlStartApplication(r) == [r EXCEPT !.m_socket = "open"]

UlHandleRead_twice(r, p, nowMs) ==
    [r EXCEPT !.m_delays = Append(Append(@, nowMs - UplinkDeserialize(p)),
                                  nowMs - UplinkDeserialize(p))]

\* VrUplinkReceiver::HandleRead, lines 571-583
UlHandleRead(r, p, nowMs) ==
    [r EXCEPT !.m_delays = Append(@, nowMs - UplinkDeserialize(p))]

\* main, lines 713-738: start and stop of the uplink generator and of the
\* uplink receiver, and Simulator::Stop
UpAgenda ==
    Schedule(Schedule(Schedule(Schedule(Schedule(<<>>,
        Event(SimStopUs, "SimStop", 0, 0, 0)),
        Event(0, "UlRecvStart", 0, 0, 0)),
        Event(AppStopUs, "UlRecvStop", 0, 0, 0)),
        Event(AppStartUs, "UpStart", 0, 0, 0)),
        Event(AppStopUs, "UpStop", 0, 0, 0))

InitUp ==
    /\ now = 0 /\ recv = 0
    /\ wire = <<>> /\ sockRx = <<>> /\ nsent = 0 /\ peerPkts = 0
    /\ EqVarsIdle
    /\ \E ui \in UplinkIntervals :
         gen = [m_frameSize |-> 0, m_pktSize |-> PayloadBytes, m_frameInterval |-> 0,
                m_pacingInterval |-> 0, m_usePacing |-> FALSE,
                m_frameCounter |-> 0, m_interval |-> ui]
    /\ agenda = UpAgenda
    /\ sent = <<>> /\ upSent = <<>> /\ halted = FALSE
    /\ codec = 0 /\ agg = 0
    /\ chan = [ulRecv |-> VrUplinkReceiver, log |-> <<>>]

\* the start event of the uplink receiver
UlRecvStart ==
    /\ Runs("UlRecvStart")
    /\ agenda' = Tail(agenda)
    /\ chan' = [chan EXCEPT !.ulRecv = UlStartApplication(@)]
    /\ UNCHANGED <<recv, chanVars, eqVars, gen, sent, upSent, halted, codec, agg>>

\* VrUplinkReceiver has no StopApplication: Application's empty one runs
UlRecvStop ==
    /\ Runs("UlRecvStop")
    /\ agenda' = Tail(agenda)
    /\ UNCHANGED <<recv, chanVars, eqVars, gen, sent, upSent, halted, auxVars>>

\* positions in upSent of the samples the channel has handed over
HandedOver == {chan.log[i].k : i \in 1..Len(chan.log)}

\* the channel hands sample k to the bound socket at the current time:
\* HandleRead runs
UpDeliver ==
    /\ ~halted
    /\ chan.ulRecv.m_socket = "open"
    /\ Len(chan.log) < MaxUpDeliveries
    /\ \E k \in (1..Len(upSent)) \ HandedOver :
         chan' = [ulRecv |-> UlHandleRead(chan.ulRecv,
                                          NewUplinkPacket(upSent[k].ts, gen.m_pktSize),
                                          MsOf(now)),
                  log |-> Append(chan.log, [k |-> k, at |-> MsOf(now)])]
    /\ UNCHANGED <<now, recv, chanVars, eqVars, genVars, codec, agg>>

NextUp ==
    \/ UlRecvStart
    \/ UlRecvStop
    \/ UpStartApplication
    \/ UpSendOne
    \/ UpStopApplication
    \/ SimulatorStop
    \/ UpDeliver

SpecUp == InitUp /\ [][NextUp]_vars

(***************************************************************************)
(* Claims about the frame tracker (Spec) and the stream path (SpecStream). *)
(***************************************************************************)
\* number of classifications recorded for the frames of S
Classifications(S) == SumOver([fid \in S |-> Len(recv.g_class[fid])], S)

\* C1: once the shutdown sweep has run, onTimeFrames + lateFrames +
\* incompleteFrames = totalFrames in every later state, in UDP and in TCP mode.
C1_SweepBalance ==
    recv.g_swept =>
        recv.m_onTimeFrames + recv.m_lateFrames + recv.m_incompleteFrames
            = recv.m_totalFrames

\* C2: every frameId is classified at most once: it adds at most one to
\* onTimeFrames + lateFrames and at most one entry to the delay series.
C2_ClassifiedAtMostOnce ==
    /\ \A fid \in DOMAIN recv.g_class : Len(recv.g_class[fid]) <= 1
    /\ recv.m_onTimeFrames + recv.m_lateFrames = Classifications(DOMAIN recv.g_class)
    /\ Len(recv.m_delays) = Classifications(DOMAIN recv.g_class)

\* a classified frame has received more fragments than it declared
C2_Witness ==
    \E fid \in DOMAIN recv.m_frames :
        /\ recv.m_frames[fid].done
        /\ recv.m_frames[fid].arrived > recv.m_frames[fid].pktCount
        /\ Len(recv.g_class[fid]) = 1

\* the classifications recorded so far, as a set of <<frame, entry>>
ClassEntries ==
    UNION {{<<fid, recv.g_class[fid][k]>> : k \in 1..Len(recv.g_class[fid])} :
              fid \in DOMAIN recv.g_class}

\* the delay of a classification: arrival time in ms minus the frame's declared
\* send timestamp, as an unsigned 32-bit difference; -1 when the value is
\* above 2^31-1 (it is then above every deadline of the model)
DelayOf(x) ==
    LET d == x[2].at - recv.m_frames[x[1]].sendTsMs
    IN  IF d >= 0 THEN d ELSE -1

\* C3: a completing frame is counted onTime iff its delay (arrival ms minus
\* declared send timestamp) is <= deadlineMs, and late otherwise: a delay of
\* exactly deadlineMs is onTime, a delay of deadlineMs + 1 is late.
C3_DeadlineInclusive ==
    /\ \A x \in ClassEntries :
         x[2].onTime <=> (DelayOf(x) >= 0 /\ DelayOf(x) <= recv.m_deadlineMs)
    /\ recv.m_onTimeFrames = Cardinality({x \in ClassEntries : x[2].onTime})
    /\ recv.m_lateFrames = Cardinality({x \in ClassEntries : ~x[2].onTime})

\* one frame completed with delay deadlineMs, another with deadlineMs + 1
C3_Witness ==
    /\ \E x \in ClassEntries : DelayOf(x) = recv.m_deadlineMs /\ x[2].onTime
    /\ \E x \in ClassEntries : DelayOf(x) = recv.m_deadlineMs + 1 /\ ~x[2].onTime
    /\ recv.m_onTimeFrames = 1 /\ recv.m_lateFrames = 1

\* number of stream bytes RecvFrom has returned to the application so far
Consumed == nsent * PacketSize - Len(wire) - Len(Concat(sockRx))

\* the k-th block (k >= 1) of a byte sequence
Block(bytes, k) == SubSeq(bytes, (k - 1) * PacketSize + 1, k * PacketSize)

\* the header of the n-th fragment (n >= 0) the peer wrote in SpecStream
Written(n) == VrHeader(n \div peerPkts, n % peerPkts, peerPkts, 0)

\* C5: an overflow empties the whole buffer and the handler returns normally;
\* what is received afterwards is handled as by a receiver that starts from an
\* empty buffer: every complete block of it is decoded and forwarded, in
\* order, the rest is buffered; if it starts on a block boundary of the
\* stream, the forwarded headers are the ones the peer wrote.
C5_OverflowRestart ==
    LET since == recv.g_since
        n     == Len(since) \div PacketSize
        start == Consumed - Len(since)
    IN  /\ Len(recv.g_fwd) = n
        /\ \A k \in 1..n : recv.g_fwd[k] = Deserialize(Block(since, k))
        /\ recv.m_tcpBuffer = Drop(since, n * PacketSize)
        /\ recv.m_socket = "open" \/ ~recv.g_started
        /\ start % PacketSize = 0 =>
             \A k \in 1..n : recv.g_fwd[k] = Written(start \div PacketSize + k - 1)

\* after an overflow, a block that starts on a block boundary was forwarded
C5_Witness ==
    /\ recv.g_overflows >= 1
    /\ Len(recv.g_fwd) >= 1
    /\ (Consumed - Len(recv.g_since)) % PacketSize = 0
    /\ recv.g_cleared # <<>>

\* C6: a frame is counted onTime or late only when each of its fragment
\* indexes 0..declaredCount-1 has arrived at least once, and a frame the sweep
\* counts as incomplete misses at least one of them.
C6_ReconstructedOnly ==
    \A fid \in DOMAIN recv.m_frames :
        LET st   == recv.m_frames[fid]
            need == 0..(st.pktCount - 1)
        IN  /\ st.done => need \subseteq recv.g_seen[fid]
            /\ (recv.g_swept /\ st.counted /\ ~st.done) =>
                 ~(need \subseteq recv.g_seen[fid])

\* totalFrames, onTimeFrames, lateFrames and incompleteFrames of a receiver
Counters(r) ==
    <<r.m_totalFrames, r.m_onTimeFrames, r.m_lateFrames, r.m_incompleteFrames>>

\* C4 as stated: for any fragments and any split of their bytes into segments,
\* the stream path ends (after the sweep) with the counters of the datagram path.
C4_PathsAgree ==
    recv.g_swept => Counters(recv) = Counters(ref)

\* C4, amended: the same, provided no receive call finds the buffered bytes plus
\* the next segment above the buffer capacity (no overflow discard happened).
C4_PathsAgreeWithoutOverflow ==
    (recv.g_swept /\ recv.g_overflows = 0) => Counters(recv) = Counters(ref)

\* a run without overflow whose segments did not end on fragment boundaries,
\* with a classified frame and a sweep
C4_Witness ==
    /\ recv.g_swept /\ recv.g_overflows = 0
    /\ recv.m_tcpBuffer # <<>>
    /\ ref.m_onTimeFrames + ref.m_lateFrames >= 1
    /\ Counters(recv) = Counters(ref)


(***************************************************************************)
(* Claims about the generators (SpecGen).                                  *)
(***************************************************************************)
Max(a, b) == IF a >= b THEN a ELSE b

\* the time from the emission logged at k to the one logged at k+1
GapAfter(k) == sent[k + 1].t - sent[k].t

\* C7: in paced mode, consecutive fragments of one frame are emitted exactly
\* pacingInterval apart, and the last fragment of a frame and the first of the
\* next are max(frameInterval - fragmentCount * pacingInterval, 1 us) apart,
\* also when frameInterval equals fragmentCount * pacingInterval.
C7_PacedGaps ==
    gen.m_usePacing =>
        \A k \in 1..(Len(sent) - 1) :
            IF sent[k + 1].hdr.frameId = sent[k].hdr.frameId
            THEN GapAfter(k) = gen.m_pacingInterval
            ELSE GapAfter(k) =
                     Max(gen.m_frameInterval - Pkts(gen) * gen.m_pacingInterval, 1)

\* the time of frame tick f in burst mode
TickTime(f) == AppStartUs + f * gen.m_frameInterval

\* C8: in burst mode every frame tick emits all fragmentCount fragments of its
\* frame within the tick, in index order 0..fragmentCount-1 and all stamped
\* with the tick's time, and the next tick is exactly frameInterval later.
C8_BurstTick ==
    (~gen.m_usePacing) =>
        /\ Len(sent) = gen.m_frameCounter * Pkts(gen)
        /\ \A k \in 1..Len(sent) :
               LET f == (k - 1) \div Pkts(gen)
                   i == (k - 1) % Pkts(gen)
               IN  /\ sent[k].t = TickTime(f)
                   /\ sent[k].hdr = VrHeader(f, i, Pkts(gen), MsOf(TickTime(f)))
        /\ \A j \in 1..Len(agenda) :
               agenda[j].ev = "SendFrame" => agenda[j].at = TickTime(gen.m_frameCounter)
        /\ gen.m_frameCounter > 0 =>
               Cardinality({j \in 1..Len(agenda) : agenda[j].ev = "SendFrame"}) = 1

\* three burst ticks of a frame of several fragments have run
C8_Witness ==
    /\ ~gen.m_usePacing
    /\ Pkts(gen) >= 2
    /\ gen.m_frameCounter >= 3
    /\ Len(sent) >= 6

\* C9: in burst mode, and in paced mode when fragmentCount * pacingInterval is
\* below frameInterval, the first fragments of consecutive frames are emitted
\* exactly frameInterval apart.
C9_FrameCadence ==
    ((~gen.m_usePacing) \/ Pkts(gen) * gen.m_pacingInterval < gen.m_frameInterval) =>
        \A k, l \in 1..Len(sent) :
            ( /\ sent[k].hdr.pktId = 0
              /\ sent[l].hdr.pktId = 0
              /\ sent[l].hdr.frameId = sent[k].hdr.frameId + 1 )
            => sent[l].t - sent[k].t = gen.m_frameInterval

\* C10: neither generator emits a unit once the applications' stop time is
\* reached: every fragment and every sample was handed to the socket before it.
C10_GeneratorsStop ==
    /\ \A k \in 1..Len(sent) : sent[k].t < AppStopUs
    /\ \A k \in 1..Len(upSent) : upSent[k].t < AppStopUs


\* the <<frameId, fragmentIndex>> pair of the unit logged at k
PairAt(k) == <<sent[k].hdr.frameId, sent[k].hdr.pktId>>

\* C12: the downlink generator emits each (frameId, fragmentIndex) pair exactly
\* once, and successive frames carry the frameIds 0, 1, 2, ..., one more per
\* frame, in burst and in paced mode.
C12_SendOnce ==
    /\ \A k, l \in 1..Len(sent) : k # l => PairAt(k) # PairAt(l)
    /\ Len(sent) > 0 => sent[1].hdr.frameId = 0
    /\ \A k \in 1..(Len(sent) - 1) :
           \/ sent[k + 1].hdr.frameId = sent[k].hdr.frameId
           \/ sent[k + 1].hdr.frameId = sent[k].hdr.frameId + 1
    /\ \A k \in 1..Len(sent) : sent[k].hdr.frameId < gen.m_frameCounter

\* three paced frames of several fragments have been started
C12_Witness ==
    /\ gen.m_usePacing
    /\ Pkts(gen) >= 2
    /\ gen.m_frameCounter >= 3
    /\ \E k \in 1..Len(sent) : sent[k].hdr.frameId = 2

\* ceil(a / b) for b > 0
CeilDiv(a, b) == CHOOSE n \in 0..a : n * b >= a /\ (n = 0 \/ (n - 1) * b < a)

\* the units logged for frame f
UnitsOf(f) == {k \in 1..Len(sent) : sent[k].hdr.frameId = f}

\* C13: the fragmentCount carried in every emitted header, and the number of
\* fragments emitted for a frame, both equal
\* ceil(frameSizeBytes / fragmentPayloadBytes).
C13_FragmentCount ==
    /\ \A k \in 1..Len(sent) :
           sent[k].hdr.pktCount = CeilDiv(gen.m_frameSize, gen.m_pktSize)
    /\ \A f \in 0..(gen.m_frameCounter - 2) :
           Cardinality(UnitsOf(f)) = CeilDiv(gen.m_frameSize, gen.m_pktSize)

\* C14: every header emitted by the downlink generator, in burst and in paced
\* mode and for every frame size including 0, has fragmentIndex < fragmentCount
\* and fragmentCount >= 1.
C14_IndexBelowCount ==
    \A k \in 1..Len(sent) :
        /\ sent[k].hdr.pktId < sent[k].hdr.pktCount
        /\ sent[k].hdr.pktCount >= 1


(***************************************************************************)
(* Claims about the header codec (SpecCodec).                              *)
(***************************************************************************)
\* the bytes bs, most significant first, are the 16-bit value v
BigEndian16(bs, v) == bs[1] * 256 + bs[2] = v

\* the bytes bs, most significant first, are the 32-bit value v (in the
\* two's-complement reading: the top byte counts as bs[1] - 256 from 128 on)
BigEndian32(bs, v) ==
    (IF bs[1] >= 128 THEN bs[1] - 256 ELSE bs[1]) * 16777216
        + bs[2] * 65536 + bs[3] * 256 + bs[4] = v

\* C17: encoding a header yields exactly 12 bytes with frameId, fragmentIndex,
\* fragmentCount, sendTimestampMs big-endian in that order, and decoding those
\* bytes with Deserialize or with DeserializeFromRaw returns the four values.
C17_RoundTrip ==
    /\ codec.stage # "new" =>
         /\ Len(codec.bytes) = 12
         /\ \A k \in 1..Len(codec.bytes) : codec.bytes[k] \in 0..255
         /\ BigEndian32(SubSeq(codec.bytes, 1, 4), codec.hdr.frameId)
         /\ BigEndian16(SubSeq(codec.bytes, 5, 6), codec.hdr.pktId)
         /\ BigEndian16(SubSeq(codec.bytes, 7, 8), codec.hdr.pktCount)
         /\ BigEndian32(SubSeq(codec.bytes, 9, 12), codec.hdr.sendTsMs)
    /\ codec.stage = "decoded" =>
         /\ codec.viaDeserialize = codec.hdr
         /\ codec.viaRaw = codec.hdr

\* a header whose fields differ in every byte position went through both decoders
C17_Witness ==
    /\ codec.stage = "decoded"
    /\ codec.hdr = VrHeader(-1, 256, 255, 16777216)
    /\ codec.viaRaw = codec.hdr


\* C18: a header is never decoded from fewer than 12 available bytes and
\* forwarded to the tracker, whatever block size SetPacketSize configured
\* (such a decode fails instead of returning a header).
C18_NoShortDecode == recv.g_short = 0


(***************************************************************************)
(* Claims about the delay statistics (SpecAgg).                            *)
(***************************************************************************)
\* number of entries of series d below v, and not above v
Below(d, v) == Cardinality({k \in 1..Len(d) : d[k] < v})

NotAbove(d, v) == Cardinality({k \in 1..Len(d) : d[k] <= v})

\* v is the element at index i (from 0) of the ascending-sorted series d
SortedAt(d, i, v) == Below(d, v) <= i /\ i < NotAbove(d, v)

\* min(floor(n * 0.99), n - 1)
P99Position(n) == IF (99 * n) \div 100 <= n - 1 THEN (99 * n) \div 100 ELSE n - 1

RECURSIVE Added(_, _, _)
\* the sum of the entries lo..hi of d
Added(d, lo, hi) ==
    IF lo > hi THEN 0
    ELSE IF lo = hi THEN d[lo]
    ELSE Added(d, lo, (lo + hi) \div 2) + Added(d, (lo + hi) \div 2 + 1, hi)

\* the three statistics of report r are those of series d
StatisticsOf(r, d) ==
    IF d = <<>>
    THEN r.avg.num = 0 /\ r.p99 = 0 /\ r.max = 0
    ELSE /\ r.avg.num * Len(d) = Added(d, 1, Len(d)) * r.avg.den
         /\ r.avg.den > 0
         /\ \A k \in 1..Len(d) : d[k] <= r.max
         /\ \E k \in 1..Len(d) : d[k] = r.max
         /\ SortedAt(d, P99Position(Len(d)), r.p99)

\* C19: for every delay series the aggregator returns average = sum/count,
\* max = the largest element and p99 = the element at index
\* min(floor(count * 0.99), count - 1) of the ascending series, all 0 for the
\* empty series; [1..100] gives p99 100 and [10,10,10] gives average 10; the
\* uplink computation and the downlink getters give the same values.
C19_Statistics ==
    agg.stage = "done" =>
        /\ StatisticsOf(agg.dlReport, agg.series)
        /\ StatisticsOf(agg.ulReport, agg.series)
        /\ agg.ulReport.p99 = agg.dlReport.p99
        /\ agg.ulReport.max = agg.dlReport.max
        /\ agg.ulReport.avg.num * agg.dlReport.avg.den
               = agg.dlReport.avg.num * agg.ulReport.avg.den
        /\ agg.series = Ramp(100) => agg.dlReport.p99 = 100
        /\ agg.series = <<10, 10, 10>> =>
               agg.dlReport.avg.num = 10 * agg.dlReport.avg.den

\* a series of 101 delays in descending order was reported: its p99 is not its
\* maximum
C19_Witness ==
    /\ agg.stage = "done"
    /\ agg.series = RampDown(101)
    /\ agg.dlReport.p99 = 100
    /\ agg.dlReport.max = 101
    /\ agg.ulReport = agg.dlReport


\* C20: in every reachable state onTimeFrames <= totalFrames, so the reported
\* onTimeRatio = onTimeFrames / totalFrames lies in [0, 1]; it is 0 when
\* totalFrames is 0.
C20_RatioInUnit ==
    /\ recv.m_onTimeFrames <= recv.m_totalFrames
    /\ Ratio(recv).den > 0
    /\ 0 <= Ratio(recv).num /\ Ratio(recv).num <= Ratio(recv).den
    /\ recv.m_totalFrames # 0 =>
           Ratio(recv).num * recv.m_totalFrames = recv.m_onTimeFrames * Ratio(recv).den
    /\ recv.m_totalFrames = 0 => Ratio(recv).num = 0

\* two frames were counted after the sweep, one of them on time
C20_Witness ==
    /\ recv.g_swept
    /\ recv.m_totalFrames = 2
    /\ recv.m_onTimeFrames = 1


(***************************************************************************)
(* Claims about the tracker behind a lossy channel (SpecLoss).             *)
(***************************************************************************)
\* the fragment indexes of frame f that the channel delivered
DeliveredOf(f) == {u[2] : u \in {v \in chan.delivered : v[1] = f}}

\* frames of which the channel delivered a fragment and dropped another
PartialFrames ==
    {f \in 0..MaxFrameId :
        DeliveredOf(f) # {} /\ Cardinality(DeliveredOf(f)) < Pkts(gen)}

\* frames all of whose fragments were delivered
FullFrames ==
    {f \in 0..MaxFrameId : Cardinality(DeliveredOf(f)) = Pkts(gen)}

\* C11: without duplicates, a frame of which the channel drops a fragment and
\* delivers another is never counted onTime or late and is counted exactly
\* once into incompleteFrames by the shutdown sweep; a frame all of whose
\* fragments are dropped changes no counter.
C11_LossIsIncomplete ==
    /\ \A f \in PartialFrames : ~recv.m_frames[f].done /\ recv.g_class[f] = <<>>
    /\ recv.m_onTimeFrames + recv.m_lateFrames = Cardinality(FullFrames)
    /\ recv.m_totalFrames = Cardinality(PartialFrames) + Cardinality(FullFrames)
    /\ recv.m_incompleteFrames =
           IF recv.g_swept THEN Cardinality(PartialFrames) ELSE 0


(***************************************************************************)
(* Claims about the order of arrival (SpecOrder).                          *)
(***************************************************************************)
\* C16: two arrival sequences that deliver the same fragments of a frame in
\* different orders, the last one arriving at the same time, give the frame
\* the same outcome and the same recorded delay, in burst and in paced mode.
C16_OrderIndependent ==
    (Missing(chan.toRecv) = 0 /\ Missing(chan.toRef) = 0) =>
        /\ recv.g_class[0] = ref.g_class[0]
        /\ recv.m_delays = ref.m_delays
        /\ Counters(recv) = Counters(ref)

(***************************************************************************)
(* Claims about the end-to-end run (SpecChan).                             *)
(***************************************************************************)
\* C15 as stated: over a lossless, non-duplicating channel whose delay for
\* every fragment stays within the deadline, no frame is counted late, and
\* after the shutdown sweep at most one frame is counted incomplete
C15_EndToEnd ==
    /\ recv.m_lateFrames = 0
    /\ recv.g_swept => recv.m_incompleteFrames <= 1

\* C15: in burst mode over such a channel that also preserves the order of
\* the fragments, no frame is counted late, and after the shutdown sweep at
\* most one frame is counted incomplete
C15_EndToEndBurstInOrder ==
    (~gen.m_usePacing /\ chan.fifo) =>
        /\ recv.m_lateFrames = 0
        /\ recv.g_swept => recv.m_incompleteFrames <= 1

\* a burst run delivered in order whose sweep found one open frame, after a
\* frame completed with a delay equal to the deadline
C15_Witness ==
    /\ ~gen.m_usePacing /\ chan.fifo
    /\ recv.g_swept /\ recv.m_incompleteFrames = 1
    /\ \E i \in 1..Len(recv.m_delays) : recv.m_delays[i] = recv.m_deadlineMs

(***************************************************************************)
(* Claims about the counting of frames (Spec).                             *)
(***************************************************************************)
\* C23: m_totalFrames is the number of distinct frame ids handed to the
\* tracker, and every frame keeps the count and the timestamp declared by the
\* first header that arrived for it, whatever later headers declare
C23_CountedOnce ==
    /\ recv.m_totalFrames = Cardinality(DOMAIN recv.g_first)
    /\ DOMAIN recv.m_frames = DOMAIN recv.g_first
    /\ \A fid \in DOMAIN recv.g_first :
         /\ recv.m_frames[fid].counted
         /\ recv.m_frames[fid].pktCount = recv.g_first[fid].pktCount
         /\ recv.m_frames[fid].sendTsMs = recv.g_first[fid].sendTsMs

\* two frames are counted; one of them declared one fragment with its first
\* header and then got a fragment with index 1, whose header declares two
C23_Witness ==
    /\ recv.m_totalFrames = 2
    /\ \E fid \in DOMAIN recv.m_frames :
         /\ recv.m_frames[fid].pktCount = 1
         /\ 1 \in recv.g_seen[fid]

(***************************************************************************)
(* Claims about fragments for a completed frame (SpecDup).                 *)
(***************************************************************************)
\* C24: a fragment handed to the tracker for a frame that is already done
\* adds one to the frame's 16-bit arrival counter and leaves the four
\* counters, the delay series and the frame's done flag as they were
C24_ExtraFragment ==
    [][\A fid \in DOMAIN recv.m_frames :
          (nsent' = nsent + 1 /\ chan'.last.frameId = fid /\ recv.m_frames[fid].done) =>
              /\ recv'.m_frames[fid].arrived = U16(recv.m_frames[fid].arrived + 1)
              /\ recv'.m_frames[fid].done
              /\ Counters(recv') = Counters(recv)
              /\ recv'.m_delays = recv.m_delays
              /\ recv'.g_class = recv.g_class]_vars

\* frame 0 was done with its arrival counter at 65535; two more fragments
\* wrapped the counter and brought it to the declared count again
C24_Witness ==
    /\ chan.start = TwoTo16 - 1
    /\ nsent = 2
    /\ recv.m_frames[0].arrived = recv.m_frames[0].pktCount
    /\ recv.m_frames[0].done
    /\ recv.m_totalFrames = 1

(***************************************************************************)
(* Claims about the recorded delays (SpecResync).                          *)
(***************************************************************************)
\* C25: every delay in the downlink series is the difference of an arrival
\* time and a declared send timestamp that is not above it: the 32-bit
\* subtraction has not wrapped (a wrapped difference is 2^31 or more, a
\* negative integer here, or exceeds the arrival time)
C25_NoWrap ==
    /\ \A i \in 1..Len(recv.m_delays) :
         recv.m_delays[i] >= 0 /\ recv.m_delays[i] <= MsOf(now)
    /\ \A fid \in DOMAIN recv.g_class :
         \A i \in 1..Len(recv.g_class[fid]) :
            LET x == recv.g_class[fid][i]
            IN  Ule32(x.at - x.delta, x.at) /\ x.delta >= 0

(***************************************************************************)
(* Claims about the reassembly buffer (SpecStream).                        *)
(***************************************************************************)
\* C26: the reassembly buffer never holds more bytes than its capacity, inside
\* a handler or between handlers, and between handlers it holds fewer bytes
\* than one block
C26_BufferBounds ==
    /\ ~recv.g_over
    /\ Len(recv.m_tcpBuffer) <= recv.m_tcpBufferSize
    /\ Len(recv.m_tcpBuffer) < recv.m_packetSize

\* after an overflow discard the buffer holds one byte less than a block
C26_Witness ==
    /\ recv.g_overflows >= 1
    /\ Len(recv.m_tcpBuffer) = recv.m_packetSize - 1

\* C28: an overflow discard drops fewer bytes than one block, so no block whose
\* bytes had all been appended is thrown away before it was forwarded
C28_NoBlockDiscarded == Len(recv.g_cleared) < recv.m_packetSize

(***************************************************************************)
(* Claims about the end of the run (Spec).                                 *)
(***************************************************************************)
\* C29: m_incompleteFrames changes only in the step of the shutdown sweep, and
\* once the sweep has run the four counters and the delay series stay as they
\* are, in UDP and in TCP mode
C29_FrozenAfterSweep ==
    [][/\ recv'.m_incompleteFrames # recv.m_incompleteFrames =>
              ~recv.g_swept /\ recv'.g_swept
       /\ recv.g_swept =>
              /\ Counters(recv') = Counters(recv)
              /\ recv'.m_delays = recv.m_delays]_vars

(***************************************************************************)
(* Claims about the series after aggregation (SpecAgg).                    *)
(***************************************************************************)
\* C27: once the statistics have been computed, the downlink series and the
\* uplink series still hold the delays that were appended, in the order of
\* their arrival
C27_SeriesUntouched ==
    agg.stage = "done" => (agg.dl = agg.series /\ agg.ul = agg.series)

(***************************************************************************)
(* Claims about the paced schedule (SpecGen).                              *)
(***************************************************************************)
\* C22: in paced mode with at least one fragment per frame, whenever the
\* generator has emitted a fragment the event it scheduled for its next step
\* (the next fragment or the next frame) lies strictly after the current
\* time: no zero or negative delay is scheduled
C22_PositiveDelays ==
    [][(gen.m_usePacing /\ Pkts(gen) >= 1 /\ sent' # sent) =>
          \A i \in 1..Len(agenda') :
             agenda'[i].ev \in {"SendFrame", "SendOneFragment"} =>
                 agenda'[i].at > now']_vars

(***************************************************************************)
(* Claims about the uplink (SpecUp).                                       *)
(***************************************************************************)
\* C21: the first uplink sample is emitted at the start time and every
\* further one an uplink interval after the one before, each stamped with
\* the millisecond of its emission; the uplink series has one entry per
\* sample handed to the receiver, the hand-over time minus the sample's
\* timestamp, and none for a sample that was not handed over
C21_UplinkSeries ==
    /\ \A k \in 1..Len(upSent) :
         /\ upSent[k].ts = MsOf(upSent[k].t)
         /\ upSent[k].t = AppStartUs + (k - 1) * gen.m_interval
    /\ Len(chan.ulRecv.m_delays) = Cardinality(HandedOver)
    /\ Len(chan.ulRecv.m_delays) = Len(chan.log)
    /\ \A i \in 1..Len(chan.log) :
         chan.ulRecv.m_delays[i] = chan.log[i].at - MsOf(upSent[chan.log[i].k].t)

\* four samples were sent and the run is over; the second sample was handed
\* over before the first, one of them a millisecond or more after it was
\* sent, and two samples were dropped
C21_Witness ==
    /\ halted
    /\ Len(upSent) >= 4
    /\ Len(chan.log) = 2
    /\ chan.log[1].k = 2 /\ chan.log[2].k = 1
    /\ chan.ulRecv.m_delays[2] >= 1

====
